---- MODULE Spec2Model ----
(***************************************************************************)
(* Model of robosuite/demos/demo_gripper_interaction.py: the simulation    *)
(* setup (lines 83-115) and the open-loop control loop (lines 117-160).    *)
(*                                                                         *)
(* The physics engine, its compiled model and the viewer are external.     *)
(* What the script reads from them is drawn from small sets: the name      *)
(* tables of the compiled model (Init), the bias forces the engine         *)
(* computes in sim.step(), and the contact buffer the script reads at      *)
(* line 122.  Setpoints are the source's decimal literals in units of      *)
(* 1e-6 (0.07 is 70000).                                                   *)
(***************************************************************************)
EXTENDS Integers, Sequences, FiniteSets, TLC

\* ------------------------------------------------------------------ bounds

\* The loop body is entered while step < MaxStep (the code has no such limit).
MaxStep == 2001
\* Length of the engine's contact buffer; ncon ranges over 0..MaxCon.
MaxCon == 2
\* Bias forces computed by the engine range over 0..MaxBias.
MaxBias == 1

\* ------------------------------------------------------- program constants

T == 500
DiagEvery == 100
gripper_z_low == 70000
gripper_z_high == 0 - 20000
gripper_open == <<0 - 11500, 11500>>
gripper_closed == <<20833, 0 - 20833>>
\* seq with the fingers closing before the gripper is lowered
seqCloseFirst == <<(<<FALSE, FALSE>>), (<<FALSE, TRUE>>), (<<TRUE, TRUE>>), (<<TRUE, FALSE>>)>>
\* seq with the second and third entries exchanged
seqBothChange == <<(<<FALSE, FALSE>>), (<<TRUE, TRUE>>), (<<TRUE, FALSE>>), (<<FALSE, TRUE>>)>>
seq == <<(<<FALSE, FALSE>>), (<<TRUE, FALSE>>), (<<TRUE, TRUE>>), (<<FALSE, TRUE>>)>>
gravity_corrected == <<"gripper_z_joint">>
\* gripper.actuators: the actuator names of the gripper model
gripper_actuators == <<"gripper_jaw_r", "gripper_jaw_l">>

\* ----------------------------------------------------- the external model

\* Degrees of freedom of the scene (velocity addresses).
Dofs == {0, 1}
BiasVals == 0..MaxBias
\* Geom ids and their names (sim.model.geom_id2name).
GeomNames == <<"floor", "box_g0">>
GeomIds == 0..(Len(GeomNames) - 1)
geom_id2name(g) == GeomNames[g + 1]
\* The actuator tables a compiled model may carry: complete, or with the
\* slider actuator or a jaw actuator missing.
ActuatorTables ==
  { <<"gripper_jaw_r", "gripper_jaw_l", "gripper_z">>,
    <<"gripper_jaw_r", "gripper_jaw_l">>,
    <<"gripper_jaw_r", "gripper_z">> }
\* The joint tables a compiled model may carry (one dof per joint).
JointTables ==
  { <<"gripper_z_joint", "finger_joint">>,
    <<"finger_joint">> }

Range(s) == {s[i] : i \in DOMAIN s}
IndexOf(s, x) == CHOOSE i \in DOMAIN s : s[i] = x

VARIABLES
  pc,                      \* position in the script
  actuator_names,          \* sim.model: actuator names by id
  joint_names,             \* sim.model: joint names by velocity address
  ref_joint_vel_indexes,   \* _ref_joint_vel_indexes
  gripper_z_id,
  gripper_jaw_ids,
  gripper_z_is_low,
  gripper_is_closed,
  step,
  ctrl,                    \* sim.data.ctrl
  qfrc_applied,            \* sim.data.qfrc_applied
  qfrc_bias,               \* sim.data.qfrc_bias
  ncon,                    \* sim.data.ncon as read in this iteration
  contact,                 \* sim.data.contact as read in this iteration
  printed,                 \* lines printed in this iteration
  calls,                   \* history: number of calls/writes made so far
  plan_index,              \* history: index used by the last plan change
  ctrl_at_step,            \* history: sim.data.ctrl at the last sim.step()
  applied_at_step,         \* history: qfrc_applied at the last sim.step()
  copied,                  \* history: last bias value copied, and its tick
  failed                   \* history: an external lookup has raised

vars == <<pc, actuator_names, joint_names, ref_joint_vel_indexes, gripper_z_id,
          gripper_jaw_ids, gripper_z_is_low, gripper_is_closed, step, ctrl,
          qfrc_applied, qfrc_bias, ncon, contact, printed, calls, plan_index,
          ctrl_at_step, applied_at_step, copied, failed>>

modelVars == <<actuator_names, joint_names>>
idVars == <<ref_joint_vel_indexes, gripper_z_id, gripper_jaw_ids>>
flagVars == <<gripper_z_is_low, gripper_is_closed>>
forceVars == <<qfrc_applied, qfrc_bias>>
diagVars == <<ncon, contact>>
histVars == <<plan_index, ctrl_at_step, applied_at_step, copied>>

LoopPcs == {"while", "diag", "plan", "ctrl", "sim", "copy", "render", "incr"}
Unset == 0 - 1
NoContacts == [i \in 1..MaxCon |-> <<0, 0>>]
ZeroCalls == [iter |-> 0, ctrl |-> 0, sim |-> 0, copy |-> 0, render |-> 0]

\* The state at line 90, after the scene is compiled and the engine and viewer
\* are created.  The two flags do not exist before lines 100 and 107; until
\* then they carry the values those lines assign.  step is assigned at line 114.
Init ==
  /\ pc = "qvel_addr"
  /\ actuator_names \in ActuatorTables
  /\ joint_names \in JointTables
  /\ ref_joint_vel_indexes = <<>>
  /\ gripper_z_id = Unset
  /\ gripper_jaw_ids = <<>>
  /\ gripper_z_is_low = FALSE
  /\ gripper_is_closed = TRUE
  /\ step = 0
  /\ ctrl = [a \in 0..(Len(actuator_names) - 1) |-> 0]
  /\ qfrc_applied = [d \in Dofs |-> 0]
  /\ qfrc_bias \in [Dofs -> BiasVals]
  /\ ncon = 0
  /\ contact = NoContacts
  /\ printed = <<>>
  /\ calls = ZeroCalls
  /\ plan_index = Unset
  /\ ctrl_at_step = ctrl
  /\ applied_at_step = qfrc_applied
  /\ copied = [val |-> 0, at |-> Unset]
  /\ failed = FALSE

\* ------------------------------------------------------------------ setup

\* An unhandled exception ends the process.
Abort ==
  /\ pc' = "aborted"
  /\ failed' = TRUE

\* lines 91-94: sim.model.get_joint_qvel_addr(x) for x in gravity_corrected
QvelAddr ==
  /\ pc = "qvel_addr"
  /\ IF \A i \in DOMAIN gravity_corrected : gravity_corrected[i] \in Range(joint_names)
       THEN /\ ref_joint_vel_indexes' =
                 [i \in DOMAIN gravity_corrected |->
                    IndexOf(joint_names, gravity_corrected[i]) - 1]
            /\ pc' = "z_id"
            /\ UNCHANGED failed
       ELSE /\ Abort
            /\ UNCHANGED ref_joint_vel_indexes
  /\ UNCHANGED <<modelVars, gripper_z_id, gripper_jaw_ids, flagVars, step, ctrl,
                 forceVars, diagVars, printed, calls, histVars>>

\* ZId with the failed lookup caught and a default id used
ZIdRecovered ==
  /\ pc = "z_id"
  /\ IF "gripper_z" \in Range(actuator_names)
       THEN /\ gripper_z_id' = IndexOf(actuator_names, "gripper_z") - 1
            /\ UNCHANGED failed
       ELSE /\ gripper_z_id' = 0
            /\ failed' = TRUE
  /\ gripper_z_is_low' = FALSE
  /\ pc' = "jaw_ids"
  /\ UNCHANGED <<modelVars, ref_joint_vel_indexes, gripper_jaw_ids, gripper_is_closed,
                 step, ctrl, forceVars, diagVars, printed, calls, histVars>>

\* lines 97-100: sim.model.actuator_name2id("gripper_z"); gripper_z_is_low = False
ZId ==
  /\ pc = "z_id"
  /\ IF "gripper_z" \in Range(actuator_names)
       THEN /\ gripper_z_id' = IndexOf(actuator_names, "gripper_z") - 1
            /\ gripper_z_is_low' = FALSE
            /\ pc' = "jaw_ids"
            /\ UNCHANGED failed
       ELSE /\ Abort
            /\ UNCHANGED <<gripper_z_id, gripper_z_is_low>>
  /\ UNCHANGED <<modelVars, ref_joint_vel_indexes, gripper_jaw_ids, gripper_is_closed,
                 step, ctrl, forceVars, diagVars, printed, calls, histVars>>

\* lines 102-107: actuator_name2id(x) for x in gripper.actuators; gripper_is_closed = True
JawIds ==
  /\ pc = "jaw_ids"
  /\ IF \A i \in DOMAIN gripper_actuators : gripper_actuators[i] \in Range(actuator_names)
       THEN /\ gripper_jaw_ids' =
                 [i \in DOMAIN gripper_actuators |->
                    IndexOf(actuator_names, gripper_actuators[i]) - 1]
            /\ gripper_is_closed' = TRUE
            /\ pc' = "set_state"
            /\ UNCHANGED failed
       ELSE /\ Abort
            /\ UNCHANGED <<gripper_jaw_ids, gripper_is_closed>>
  /\ UNCHANGED <<modelVars, ref_joint_vel_indexes, gripper_z_id, gripper_z_is_low,
                 step, ctrl, forceVars, diagVars, printed, calls, histVars>>

\* lines 113-115: sim.set_state(sim_state); step = 0; T = 500
SetState ==
  /\ pc = "set_state"
  /\ step' = 0
  /\ pc' = "while"
  /\ UNCHANGED <<modelVars, idVars, flagVars, ctrl, forceVars, diagVars, printed,
                 calls, histVars, failed>>

\* ------------------------------------------------------------------- loop

\* WhileTrue with an exit condition on the step counter
WhileBounded ==
  /\ pc = "while"
  /\ step < MaxStep
  /\ IF step < 2 * T
       THEN /\ pc' = "diag"
            /\ ncon' = 0
            /\ contact' = NoContacts
            /\ printed' = <<>>
            /\ calls' = [calls EXCEPT !.iter = @ + 1]
       ELSE /\ pc' = "done"
            /\ UNCHANGED <<diagVars, printed, calls>>
  /\ UNCHANGED <<modelVars, idVars, flagVars, step, ctrl, forceVars, histVars, failed>>

\* line 117: while True (the iteration starts with nothing read or printed)
WhileTrue ==
  /\ pc = "while"
  /\ step < MaxStep
  /\ pc' = "diag"
  /\ ncon' = 0
  /\ contact' = NoContacts
  /\ printed' = <<>>
  /\ calls' = [calls EXCEPT !.iter = @ + 1]
  /\ UNCHANGED <<modelVars, idVars, flagVars, step, ctrl, forceVars, histVars, failed>>

\* ContactLines skipping a contact as soon as one of its geoms is the floor
RECURSIVE ContactLinesEither(_, _, _)
ContactLinesEither(c, i, n) ==
  IF i > n THEN <<>>
  ELSE LET geom_name1 == geom_id2name(c[i][1])
           geom_name2 == geom_id2name(c[i][2])
       IN (IF geom_name1 = "floor" \/ geom_name2 = "floor"
             THEN <<>>
             ELSE << <<"geom", i, geom_name1, geom_name2>>,
                     <<"contact id", i>>,
                     <<"friction", i>>,
                     <<"normal", i>> >>)
          \o ContactLinesEither(c, i + 1, n)

\* lines 122-132: the lines printed for contact[i..n], skipping floor-floor contacts
RECURSIVE ContactLines(_, _, _)
ContactLines(c, i, n) ==
  IF i > n THEN <<>>
  ELSE LET geom_name1 == geom_id2name(c[i][1])
           geom_name2 == geom_id2name(c[i][2])
       IN (IF geom_name1 = "floor" /\ geom_name2 = "floor"
             THEN <<>>
             ELSE << <<"geom", i, geom_name1, geom_name2>>,
                     <<"contact id", i>>,
                     <<"friction", i>>,
                     <<"normal", i>> >>)
          \o ContactLines(c, i + 1, n)

\* Diag throttled on the tick after each multiple of DiagEvery
DiagOffTick ==
  /\ pc = "diag"
  /\ IF step % DiagEvery = 1
       THEN \E n \in 0..MaxCon, c \in [1..MaxCon -> GeomIds \X GeomIds] :
              /\ ncon' = n
              /\ contact' = c
              /\ printed' = Append(printed, <<"step", step>>) \o ContactLines(c, 1, n)
       ELSE UNCHANGED <<ncon, contact, printed>>
  /\ pc' = "plan"
  /\ UNCHANGED <<modelVars, idVars, flagVars, step, ctrl, forceVars, calls, histVars,
                 failed>>

\* lines 118-132: every DiagEvery ticks, print the step and the engine's contacts
Diag ==
  /\ pc = "diag"
  /\ IF step % DiagEvery = 0
       THEN \E n \in 0..MaxCon, c \in [1..MaxCon -> GeomIds \X GeomIds] :
              /\ ncon' = n
              /\ contact' = c
              /\ printed' = Append(printed, <<"step", step>>) \o ContactLines(c, 1, n)
       ELSE UNCHANGED <<ncon, contact, printed>>
  /\ pc' = "plan"
  /\ UNCHANGED <<modelVars, idVars, flagVars, step, ctrl, forceVars, calls, histVars,
                 failed>>

\* PlanIndex with the modulus one short of len(seq)
PlanIndexShort(s) == (s \div T) % (Len(seq) - 1)

\* line 136: int(step / T) % len(seq)
PlanIndex(s) == (s \div T) % Len(seq)

\* PlanTick that leaves out tick 0
PlanTickSkipFirst(s) == s % T = 0 /\ s > 0

\* line 135: the ticks at which the plan changes
PlanTick(s) == s % T = 0

\* lines 135-142: every T ticks, take the next entry of seq
Plan ==
  /\ pc = "plan"
  /\ IF PlanTick(step)
       THEN LET plan == seq[PlanIndex(step) + 1]
            IN /\ gripper_z_is_low' = plan[1]
               /\ gripper_is_closed' = plan[2]
               /\ plan_index' = PlanIndex(step)
               /\ printed' = Append(printed, <<"changing plan", plan[1], plan[2]>>)
       ELSE UNCHANGED <<flagVars, plan_index, printed>>
  /\ pc' = "ctrl"
  /\ UNCHANGED <<modelVars, idVars, step, ctrl, forceVars, diagVars, calls,
                 ctrl_at_step, applied_at_step, copied, failed>>

\* lines 145-148: the height setpoint selected by gripper_z_is_low
HeightSetpoint(low) == IF low THEN gripper_z_low ELSE gripper_z_high

\* lines 149-152: the finger setpoints selected by gripper_is_closed
FingerSetpoint(closed) == IF closed THEN gripper_closed ELSE gripper_open

\* sim.data.ctrl after the writes of lines 145-152 under the flags (low, closed)
CtrlWritten(c, low, closed) ==
  [a \in DOMAIN c |->
     IF \E i \in DOMAIN gripper_jaw_ids : gripper_jaw_ids[i] = a
       THEN FingerSetpoint(closed)[IndexOf(gripper_jaw_ids, a)]
       ELSE IF a = gripper_z_id THEN HeightSetpoint(low) ELSE c[a]]

\* Ctrl writing the setpoints only in the ticks where the plan changes
CtrlOnPlanTick ==
  /\ pc = "ctrl"
  /\ IF PlanTick(step)
       THEN /\ ctrl' = CtrlWritten(ctrl, gripper_z_is_low, gripper_is_closed)
            /\ calls' = [calls EXCEPT !.ctrl = @ + 1]
       ELSE UNCHANGED <<ctrl, calls>>
  /\ pc' = "sim"
  /\ UNCHANGED <<modelVars, idVars, flagVars, step, forceVars, diagVars, printed,
                 histVars, failed>>

\* lines 145-152: write the height and finger setpoints to sim.data.ctrl
Ctrl ==
  /\ pc = "ctrl"
  /\ ctrl' = CtrlWritten(ctrl, gripper_z_is_low, gripper_is_closed)
  /\ calls' = [calls EXCEPT !.ctrl = @ + 1]
  /\ pc' = "sim"
  /\ UNCHANGED <<modelVars, idVars, flagVars, step, forceVars, diagVars, printed,
                 histVars, failed>>

\* line 155: sim.step(); the engine reads ctrl and qfrc_applied, recomputes qfrc_bias
SimStep ==
  /\ pc = "sim"
  /\ qfrc_bias' \in [Dofs -> BiasVals]
  /\ ctrl_at_step' = ctrl
  /\ applied_at_step' = qfrc_applied
  /\ calls' = [calls EXCEPT !.sim = @ + 1]
  /\ pc' = "copy"
  /\ UNCHANGED <<modelVars, idVars, flagVars, step, ctrl, qfrc_applied, diagVars,
                 printed, plan_index, copied, failed>>

\* AppliedAfterCopy copying the whole bias vector
AppliedCopyAll(applied, bias) == [d \in DOMAIN applied |-> bias[d]]

\* lines 156-158: qfrc_applied[idx] = qfrc_bias[idx] for idx in _ref_joint_vel_indexes
AppliedAfterCopy(applied, bias) ==
  [d \in DOMAIN applied |->
     IF d \in Range(ref_joint_vel_indexes) THEN bias[d] ELSE applied[d]]

\* lines 156-158: the gravity-compensation copy
GravCopy ==
  /\ pc = "copy"
  /\ qfrc_applied' = AppliedAfterCopy(qfrc_applied, qfrc_bias)
  /\ copied' = [val |-> qfrc_bias[ref_joint_vel_indexes[1]], at |-> step]
  /\ calls' = [calls EXCEPT !.copy = @ + 1]
  /\ pc' = "render"
  /\ UNCHANGED <<modelVars, idVars, flagVars, step, ctrl, qfrc_bias, diagVars,
                 printed, plan_index, ctrl_at_step, applied_at_step, failed>>

\* line 159: viewer.render()
Render ==
  /\ pc = "render"
  /\ calls' = [calls EXCEPT !.render = @ + 1]
  /\ pc' = "incr"
  /\ UNCHANGED <<modelVars, idVars, flagVars, step, ctrl, forceVars, diagVars,
                 printed, histVars, failed>>

\* line 160: step += 1, then back to the loop head
Incr ==
  /\ pc = "incr"
  /\ step' = step + 1
  /\ pc' = "while"
  /\ UNCHANGED <<modelVars, idVars, flagVars, ctrl, forceVars, diagVars, printed,
                 calls, histVars, failed>>

Next ==
  \/ QvelAddr
  \/ ZId
  \/ JawIds
  \/ SetState
  \/ WhileTrue
  \/ Diag
  \/ Plan
  \/ Ctrl
  \/ SimStep
  \/ GravCopy
  \/ Render
  \/ Incr

Spec == Init /\ [][Next]_vars

\* ----------------------------------------------------------------- claims

\* Positions of an iteration at which a given statement of that iteration has run.
AfterDiag == {"plan", "ctrl", "sim", "copy", "render", "incr"}
AfterPlan == {"ctrl", "sim", "copy", "render", "incr"}
AfterCtrl == {"sim", "copy", "render", "incr"}
AfterSim == {"copy", "render", "incr"}
AfterCopy == {"render", "incr"}
Done(S) == IF pc \in S THEN 1 ELSE 0

\* The actuator setpoints found in a control vector: <<height, <<finger, finger>>>>.
Commanded(c) == <<c[gripper_z_id], <<c[gripper_jaw_ids[1]], c[gripper_jaw_ids[2]]>> >>
High == 0 - 20000
Low == 70000
Open == <<0 - 11500, 11500>>
Closed == <<20833, 0 - 20833>>

\* C1: at every tick the active plan entry is seq[floor(step / 500) mod 4]; the
\* index is within 0..3, and it moves on exactly at the multiples of 500.
C1_PlanIndexCycles ==
  pc \in LoopPcs =>
    LET tick == IF pc \in AfterPlan THEN step ELSE step - 1
    IN IF tick < 0
         THEN plan_index = Unset
         ELSE /\ plan_index \in 0..3
              /\ plan_index = (tick \div 500) % 4
              /\ <<gripper_z_is_low, gripper_is_closed>> = seq[plan_index + 1]

C1_Witness == pc = "ctrl" /\ step = 2000 /\ plan_index = 0

\* C2: in every iteration the height and finger entries of ctrl are written from
\* the active pair, before the one engine step, which is before the one render.
C2_WriteStepRender ==
  pc \in LoopPcs =>
    /\ calls.ctrl = step + Done(AfterCtrl)
    /\ calls.sim = step + Done(AfterSim)
    /\ calls.render = step + Done({"incr"})
    /\ pc \in AfterCtrl =>
         LET c == IF pc = "sim" THEN ctrl ELSE ctrl_at_step
         IN /\ c[gripper_z_id] = (IF gripper_z_is_low THEN 70000 ELSE 0 - 20000)
            /\ <<c[gripper_jaw_ids[1]], c[gripper_jaw_ids[2]]>> =
                 (IF gripper_is_closed THEN <<20833, 0 - 20833>>
                                       ELSE <<0 - 11500, 11500>>)

C2_Witness == pc = "render" /\ step = 777 /\ calls.sim = 778 /\ calls.render = 777

\* C3: the commanded states in successive 500-tick windows are (high, open),
\* (low, open), (low, closed), (high, closed), and then (high, open) again.
C3_PhaseOrder ==
  pc \in AfterCtrl =>
    LET window == (step \div 500) % 4
    IN /\ window = 0 => Commanded(ctrl) = <<High, Open>>
       /\ window = 1 => Commanded(ctrl) = <<Low, Open>>
       /\ window = 2 => Commanded(ctrl) = <<Low, Closed>>
       /\ window = 3 => Commanded(ctrl) = <<High, Closed>>

C3_Witness == pc = "sim" /\ step = 2000 /\ Commanded(ctrl) = <<High, Open>>

\* C4: once entered, the loop is never left: the script stays inside the loop,
\* a next statement can always run, and step grows by one per iteration.
C4_LoopForever ==
  (pc = "while" \/ calls.iter > 0) =>
    /\ pc \in LoopPcs
    /\ step = calls.iter - (IF pc = "while" THEN 0 ELSE 1)
    /\ step < MaxStep => ENABLED Next

C4_Witness == pc = "while" /\ step = 2000 /\ calls.iter = 2000

\* C5: a failed lookup during setup aborts the process at that lookup: the loop
\* is not entered, and nothing is written, stepped or rendered.
C5_SetupAbort ==
  /\ "gripper_z_joint" \notin Range(joint_names) => pc \in {"qvel_addr", "aborted"}
  /\ "gripper_z" \notin Range(actuator_names) => pc \in {"qvel_addr", "z_id", "aborted"}
  /\ (\E i \in DOMAIN gripper_actuators : gripper_actuators[i] \notin Range(actuator_names))
       => pc \in {"qvel_addr", "z_id", "jaw_ids", "aborted"}
  /\ failed =>
       /\ pc = "aborted"
       /\ ~ ENABLED Next
       /\ calls = ZeroCalls
       /\ \A a \in DOMAIN ctrl : ctrl[a] = 0

C5_Witness == pc = "aborted" /\ "gripper_z" \notin Range(actuator_names)

C7_GravityCopy ==
  pc \in LoopPcs =>
    LET addr == IndexOf(joint_names, "gripper_z_joint") - 1
    IN /\ \A d \in Dofs : d # addr => qfrc_applied[d] = 0 /\ applied_at_step[d] = 0
       /\ calls.copy = step + Done(AfterCopy)
       /\ pc \in AfterCopy =>
            /\ qfrc_applied[addr] = qfrc_bias[addr]
            /\ calls.sim = step + 1
            /\ calls.render = step + Done({"incr"})
            /\ copied = [val |-> qfrc_bias[addr], at |-> step]
       /\ (pc \in AfterSim /\ step = 0) => applied_at_step[addr] = 0
       /\ (pc = "copy" /\ step > 0) =>
            /\ copied.at = step - 1
            /\ applied_at_step[addr] = copied.val

C7_Witness ==
  pc = "copy" /\ step = 3 /\ copied = [val |-> 1, at |-> 2] /\ qfrc_bias[0] = 0
              /\ qfrc_bias[1] = 1

\* C8: the initial flags (False, True) never reach the actuators: the first
\* commanded state is (high, open), and no closed-finger setpoint is in ctrl
\* before tick 1000.
C8_InitialFlagsOverwritten ==
  pc \in LoopPcs =>
    /\ (pc \in AfterPlan /\ step = 0) =>
         <<gripper_z_is_low, gripper_is_closed>> = <<FALSE, FALSE>>
    /\ (pc \in AfterCtrl /\ step = 0) => Commanded(ctrl) = <<High, Open>>
    /\ Commanded(ctrl)[2] = Closed => step >= 1000
    /\ calls.sim > 0 /\ Commanded(ctrl_at_step)[2] = Closed => step >= 1000

C8_Witness == pc = "sim" /\ step = 0 /\ calls.ctrl = 1 /\ ~gripper_is_closed

\* C9: at every plan change, the wrap-around included, exactly one of the two
\* flags changes; no flag changes in between; the fingers close only while the
\* gripper is low and open only while it is high.
C9_OneFlagPerChange ==
  [][ IF pc = "plan" /\ step % 500 = 0
        THEN /\ (gripper_z_is_low' # gripper_z_is_low)
                  # (gripper_is_closed' # gripper_is_closed)
             /\ gripper_is_closed' # gripper_is_closed =>
                  /\ gripper_z_is_low' = gripper_z_is_low
                  /\ gripper_is_closed' = gripper_z_is_low
        ELSE /\ gripper_z_is_low' = gripper_z_is_low
             /\ gripper_is_closed' = gripper_is_closed ]_vars

C9_Witness ==
  /\ pc = "ctrl" /\ step = 2000
  /\ ~gripper_z_is_low /\ ~gripper_is_closed
  /\ printed[Len(printed)] = <<"changing plan", FALSE, FALSE>>

\* C10: on a diagnostic tick, contact i is reported exactly if i is among the
\* first ncon entries and its two geoms are not both named "floor".
C10_ContactFilter ==
  (pc \in AfterDiag /\ step % 100 = 0) =>
    \A i \in 1..MaxCon :
      LET name1 == GeomNames[contact[i][1] + 1]
          name2 == GeomNames[contact[i][2] + 1]
          reported == i <= ncon /\ ~(name1 = "floor" /\ name2 = "floor")
          TimesPrinted(line) == Cardinality({k \in DOMAIN printed : printed[k] = line})
      IN /\ TimesPrinted(<<"geom", i, name1, name2>>) = (IF reported THEN 1 ELSE 0)
         /\ TimesPrinted(<<"contact id", i>>) = (IF reported THEN 1 ELSE 0)
         /\ TimesPrinted(<<"friction", i>>) = (IF reported THEN 1 ELSE 0)
         /\ TimesPrinted(<<"normal", i>>) = (IF reported THEN 1 ELSE 0)
         /\ \A k \in DOMAIN printed :
              (printed[k][1] = "geom" /\ printed[k][2] = i) =>
                 printed[k] = <<"geom", i, name1, name2>>

C10_Witness ==
  /\ pc = "plan" /\ step = 100 /\ ncon = 1
  /\ contact = <<(<<0, 1>>), (<<1, 1>>)>>
  /\ printed = << <<"step", 100>>, <<"geom", 1, "floor", "box_g0">>,
                  <<"contact id", 1>>, <<"friction", 1>>, <<"normal", 1>> >>

====
